---- MODULE Spec2Model ----
(***************************************************************************)
(* A model of gdex_jira/jira_client.py: one run of main(), the routing     *)
(* pass of GdexJiraAutomator over the two team queues of the tracker       *)
(* (Spec), and its two static methods called on their own, with arguments  *)
(* of any type (FunctionSpec).                                             *)
(*                                                                         *)
(* Python strings are TLA+ strings (a character is SubSeq(s, i, i)).       *)
(* Python's None among strings is the string None below, which no input of *)
(* the model contains; None among lists is ListNone.                       *)
(***************************************************************************)
EXTENDS Integers, Sequences, FiniteSets, TLC

(* ------------------------------ bounds --------------------------------- *)

\* Number of tickets the tracker holds (keys DATAHELP-1 .. DATAHELP-NumTickets).
NumTickets == 2

\* Longest assignee-change history a ticket starts the pass with.
MaxHistLen == 3

\* Most identifier-like words in the summary of a ticket handed to
\* get_dsid_from_json on its own.
MaxTokens == 2

(* ------------------------- strings and None ---------------------------- *)

None == "<None>"

Char(s, i) == SubSeq(s, i, i)

Digits == {"0", "1", "2", "3", "4", "5", "6", "7", "8", "9"}

UpperLetters == "ABCDEFGHIJKLMNOPQRSTUVWXYZ"

LowerLetters == "abcdefghijklmnopqrstuvwxyz"

Whitespace == {" ", "\n", "\t"}

IsDigit(c) == c \in Digits

UpperSet == {Char(UpperLetters, k) : k \in 1..26}

LowerSet == {Char(LowerLetters, k) : k \in 1..26}

IsUpper(c) == c \in UpperSet

IsLower(c) == c \in LowerSet

\* U+017F, LATIN SMALL LETTER LONG S, written "~" here (a TLA+ string holds
\* ASCII only, and no text of the model uses "~" for itself). It is a
\* lowercase letter that str.lower() leaves alone and that folds to "s".
LongS == "~"

\* \w of the re module on the model's alphabet.
IsWordChar(c) == IsDigit(c) \/ IsUpper(c) \/ IsLower(c) \/ c = "_" \/ c = LongS

LowerChar(c) ==
    IF IsUpper(c)
    THEN Char(LowerLetters, CHOOSE k \in 1..26 : Char(UpperLetters, k) = c)
    ELSE c

\* A literal letter of a pattern under re.IGNORECASE (str patterns match in
\* Unicode mode): the letter in either case, and for "s" the long s as well.
MatchesIgnoreCase(c, letter) == LowerChar(c) = letter \/ (letter = "s" /\ c = LongS)

RECURSIVE lower(_)
\* str.lower()
lower(s) == IF s = "" THEN "" ELSE LowerChar(Char(s, 1)) \o lower(SubSeq(s, 2, Len(s)))

\* str.isdigit(): non-empty and digits only.
isdigit(s) == s # "" /\ \A k \in 1..Len(s) : IsDigit(Char(s, k))

startswith(s, p) == Len(s) >= Len(p) /\ SubSeq(s, 1, Len(p)) = p

RECURSIVE split(_, _)
\* str.split(sep) for a one-character separator.
split(s, sep) ==
    IF \E k \in 1..Len(s) : Char(s, k) = sep
    THEN LET k == CHOOSE j \in 1..Len(s) :
                      /\ Char(s, j) = sep
                      /\ \A h \in 1..(j - 1) : Char(s, h) # sep
         IN  <<SubSeq(s, 1, k - 1)>> \o split(SubSeq(s, k + 1, Len(s)), sep)
    ELSE <<s>>

\* str(v) of a string or None.
str(v) == IF v = None THEN "None" ELSE v

\* repr(v) of a string or None (quotes inside v are not modelled).
repr(v) == IF v = None THEN "None" ELSE "'" \o v \o "'"

(* ----------------------------- _clean_text ----------------------------- *)

RECURSIVE RemoveMarkup(_)
\* re.sub(r'\{[^}]*\}', '', text)
RemoveMarkup(s) ==
    IF s = "" THEN ""
    ELSE IF Char(s, 1) = "{" /\ \E j \in 2..Len(s) : Char(s, j) = "}"
    THEN LET j == CHOOSE h \in 2..Len(s) :
                      /\ Char(s, h) = "}"
                      /\ \A g \in 2..(h - 1) : Char(s, g) # "}"
         IN  RemoveMarkup(SubSeq(s, j + 1, Len(s)))
    ELSE Char(s, 1) \o RemoveMarkup(SubSeq(s, 2, Len(s)))

\* The ends j of a match of \s+\n that starts at the first character of s.
SpaceNewlineEnds(s) ==
    IF Char(s, 1) \notin Whitespace THEN {}
    ELSE {j \in 2..Len(s) : /\ Char(s, j) = "\n"
                            /\ \A h \in 1..(j - 1) : Char(s, h) \in Whitespace}

Max(S) == CHOOSE m \in S : \A n \in S : n <= m

RECURSIVE RemoveSpaceNewline(_)
\* re.sub(r'\s+\n', '', text): leftmost match, greedy.
RemoveSpaceNewline(s) ==
    IF s = "" THEN ""
    ELSE IF SpaceNewlineEnds(s) # {}
    THEN RemoveSpaceNewline(SubSeq(s, Max(SpaceNewlineEnds(s)) + 1, Len(s)))
    ELSE Char(s, 1) \o RemoveSpaceNewline(SubSeq(s, 2, Len(s)))

\* Length of the run of newlines that s starts with.
NewlineRun(s) ==
    IF Char(s, 1) # "\n" THEN 0
    ELSE Max({n \in 1..Len(s) : \A h \in 1..n : Char(s, h) = "\n"})

RECURSIVE CollapseNewlines(_)
\* re.sub(r'\n{3,}', '\n', text)
CollapseNewlines(s) ==
    IF s = "" THEN ""
    ELSE IF NewlineRun(s) >= 3
    THEN "\n" \o CollapseNewlines(SubSeq(s, NewlineRun(s) + 1, Len(s)))
    ELSE Char(s, 1) \o CollapseNewlines(SubSeq(s, 2, Len(s)))

\* str.strip()
strip(s) ==
    LET keep == {k \in 1..Len(s) : Char(s, k) \notin Whitespace}
    IN  IF keep = {} THEN ""
        ELSE SubSeq(s, CHOOSE a \in keep : \A b \in keep : a <= b, Max(keep))

_clean_text(text) ==
    IF text = None \/ text = "" THEN None
    ELSE strip(CollapseNewlines(RemoveSpaceNewline(RemoveMarkup(text))))

(* ------------------------- the tracker's issues ------------------------ *)

Tickets == 1..NumTickets

\* issue.key of ticket t.
Key(t) == "DATAHELP-" \o Char("123456789", t)

\* The display names of the two team queues (the assignee of the JQL query).
SERVICES == "DATAHELP-SERVICES-CONSULTING"

CURATION == "DATAHELP-CURATION-SUPPORT"

\* Mutant: both queries name the curation queue.
TeamQueueCurationOnly(svc) == CURATION

TeamQueue(svc) == IF svc THEN SERVICES ELSE CURATION

NoReporter == [present |-> FALSE, displayName |-> None, emailAddress |-> None]

Reporter(name, mail) == [present |-> TRUE, displayName |-> name, emailAddress |-> mail]

\* issue.fields of the tickets the tracker may hold: one that names a dataset
\* (in both forms, inside markup) and one that names none.
SampleFields ==
    { [reporter |-> Reporter("Ann", "ann@x.org"), summary |-> "DS123.4 broken \n\n",
       description |-> "see {color:red}d123456{color} ok",
       created |-> "2024-01-02T03:04:05.000-0600"],
      [reporter |-> NoReporter, summary |-> "hello",
       description |-> None,
       created |-> "2024-01-04T03:04:05.000-0600"] }

RECURSIVE SeqsUpTo(_, _)
SeqsUpTo(S, n) ==
    IF n = 0 THEN {<<>>}
    ELSE LET shorter == SeqsUpTo(S, n - 1)
         IN  shorter \cup {Append(h, x) : h \in shorter, x \in S}

\* The change histories of a ticket now assigned to `who`: an assignee change
\* is recorded only when the assignee changes, and the last one is to `who`.
Histories(who) ==
    {h \in SeqsUpTo({SERVICES, CURATION}, MaxHistLen) :
        /\ \A k \in 1..(Len(h) - 1) : h[k] # h[k + 1]
        /\ h # <<>> => h[Len(h)] = who}

(* ----------------------------- _issue_to_dict -------------------------- *)

\* The dict of a reporter, as str() prints it.
ReporterDict(r) == [name |-> _clean_text(r.displayName), email |-> _clean_text(r.emailAddress)]

_issue_to_dict(key, f) ==
    [key |-> _clean_text(key),
     reporter |-> IF f.reporter.present
                  THEN "{'name': " \o repr(ReporterDict(f.reporter).name)
                       \o ", 'email': " \o repr(ReporterDict(f.reporter).email) \o "}"
                  ELSE None,
     summary |-> _clean_text(f.summary),
     description |-> _clean_text(f.description),
     created |-> _clean_text(f.created)]

(* --------------------------- get_dsid_from_json ------------------------ *)

\* Whether position p of text holds a word character (no character: no).
WordAt(text, p) == p >= 1 /\ p <= Len(text) /\ IsWordChar(Char(text, p))

\* \b before position p.
Boundary(text, p) == WordAt(text, p - 1) # WordAt(text, p)

\* r'\bd\d{6}\b' with re.IGNORECASE, matched at position p.
PrimaryAt(text, p) ==
    /\ p + 6 <= Len(text)
    /\ MatchesIgnoreCase(Char(text, p), "d")
    /\ \A k \in 1..6 : IsDigit(Char(text, p + k))
    /\ Boundary(text, p)
    /\ Boundary(text, p + 7)

\* r'\bds\d{3}\.\d\b' with re.IGNORECASE, matched at position p.
LegacyAt(text, p) ==
    /\ p + 6 <= Len(text)
    /\ MatchesIgnoreCase(Char(text, p), "d")
    /\ MatchesIgnoreCase(Char(text, p + 1), "s")
    /\ \A k \in 2..4 : IsDigit(Char(text, p + k))
    /\ Char(text, p + 5) = "."
    /\ IsDigit(Char(text, p + 6))
    /\ Boundary(text, p)
    /\ Boundary(text, p + 7)

\* Mutant: the legacy pattern is tried first.
dsid_patterns_legacy_first == <<"legacy", "primary">>

dsid_patterns == <<"primary", "legacy">>

MatchAt(pattern, text, p) ==
    IF pattern = "primary" THEN PrimaryAt(text, p) ELSE LegacyAt(text, p)

\* re.search(pattern, text, re.IGNORECASE).group(): the leftmost match, or None.
re_search(pattern, text) ==
    LET at == {p \in 1..Len(text) : MatchAt(pattern, text, p)}
    IN  IF at = {} THEN None
        ELSE LET p == CHOOSE a \in at : \A b \in at : a <= b
             IN  SubSeq(text, p, p + 6)

\* " ".join(map(str, ticket_text.values()))
JoinValues(ticket) ==
    str(ticket.key) \o " " \o str(ticket.reporter) \o " " \o str(ticket.summary)
    \o " " \o str(ticket.description) \o " " \o str(ticket.created)

\* One turn of the loop over dsid_patterns: the value returned, or None when
\* the loop goes on to the next pattern.
TryPattern(pattern, text) ==
    LET match == re_search(pattern, text)
        dsid == lower(match)
        parts == split(SubSeq(dsid, 3, Len(dsid)), ".")
    IN  IF match = None THEN None
        ELSE IF startswith(dsid, "ds")
        THEN IF Len(parts) = 2 /\ isdigit(parts[1]) /\ isdigit(parts[2])
             THEN "d" \o parts[1] \o "00" \o parts[2]
             ELSE None
        ELSE dsid

get_dsid_from_json(ticket) ==
    LET text == JoinValues(ticket)
        first == TryPattern(dsid_patterns[1], text)
    IN  IF first # None THEN first ELSE TryPattern(dsid_patterns[2], text)


(* ------------------ arguments and outcomes of a call ------------------- *)

\* A dict with no content, where a value is no dict.
NoDict ==
    [key |-> None, reporter |-> None, summary |-> None, description |-> None, created |-> None]

\* A Python value handed to a method: type(value).__name__, bool(value), and
\* the content of a dict or of a str.
Value(type, truthy, dict, text) ==
    [type |-> type, truthy |-> truthy, dict |-> dict, text |-> text]

PyDict(d) == Value("dict", TRUE, d, "")

PyStr(text) == Value("str", text # "", NoDict, text)

PyNone == Value("NoneType", FALSE, NoDict, "")

\* A call either returns a value or raises; `requests` counts the requests
\* sent to the directory on the way.
Returned(v, n) == [raised |-> "", value |-> v, requests |-> n]

Raised(exc, n) == [raised |-> exc, value |-> None, requests |-> n]

\* get_dsid_from_json from its first line: `if not ticket_text` (line 169)
\* comes before the isinstance test (line 171).
call_get_dsid_from_json(ticket_text) ==
    IF ~ticket_text.truthy THEN Returned(None, 0)
    ELSE IF ticket_text.type # "dict" THEN Raised("TypeError", 0)
    ELSE Returned(get_dsid_from_json(ticket_text.dict), 0)

(* --------------------------- get_dsid_owner_email ---------------------- *)

\* The reserved catch-all address and the pool that stands in for it.
CatchAll == "chifan@ucar.edu"

assignee_list ==
    <<"dattore@ucar.edu", "rpconroy@ucar.edu", "caliepayne@ucar.edu",
      "davestep@ucar.edu", "tcram@ucar.edu", "chiaweih@ucar.edu">>

Owner == "owner@example.org"

\* One element of the "data" array: a record (JSON object) with or without an
\* email (None: the key is missing or null), or something that is no record.
Entry(isRecord, mail) == [record |-> isRecord, email |-> mail]

\* What requests.get, raise_for_status and response.json() can give:
\*   raised:  the exception of the request, or "none";
\*   json:    whether the body decodes as JSON;
\*   shape:   the JSON value: "mapping" (an object), "array", "string",
\*            "number" (or true, false), "null";
\*   hasData: `"data" in json_data` (a key, an element, a substring);
\*   kind:    the type of the "data" member of an object;
\*   data:    its elements when it is a list; of another kind, <<>> when it
\*            is falsy and one element that is no record otherwise.
Response(raised, json, shape, hasData, kind, data) ==
    [raised |-> raised, json |-> json, shape |-> shape, hasData |-> hasData,
     kind |-> kind, data |-> data]

Failure(raised) == Response(raised, FALSE, "null", FALSE, "list", <<>>)

Body(shape, hasData) == Response("none", TRUE, shape, hasData, "list", <<>>)

Member(kind) == Response("none", TRUE, "mapping", TRUE, kind, <<Entry(FALSE, None)>>)

Answer(data) == Response("none", TRUE, "mapping", TRUE, "list", data)

DirectoryResponses ==
    { Failure("ConnectionError"), Failure("Timeout"), Failure("HTTPError"),
      Failure("RequestException"),
      Response("none", FALSE, "null", FALSE, "list", <<>>),
      Body("null", FALSE), Body("number", FALSE),
      Body("string", FALSE), Body("string", TRUE),
      Body("array", FALSE), Body("array", TRUE),
      Body("mapping", FALSE),
      Member("dict"), Member("str"), Member("int"),
      Answer(<<>>),
      Answer(<<Entry(FALSE, None)>>),
      Answer(<<Entry(TRUE, None)>>),
      Answer(<<Entry(TRUE, "")>>),
      Answer(<<Entry(TRUE, Owner)>>),
      Answer(<<Entry(TRUE, None), Entry(TRUE, Owner)>>),
      Answer(<<Entry(TRUE, Owner), Entry(TRUE, CatchAll)>>),
      Answer(<<Entry(TRUE, CatchAll), Entry(TRUE, Owner)>>) }

\* The classes an `except` clause can name to catch an exception of class exc.
Superclasses(exc) ==
    CASE exc \in {"ConnectionError", "Timeout", "HTTPError"} ->
             {exc, "RequestException", "OSError", "Exception"}
      [] exc = "RequestException" -> {exc, "OSError", "Exception"}
      [] exc = "JSONDecodeError" -> {exc, "RequestException", "ValueError", "Exception"}
      [] exc = "KeyError" -> {exc, "LookupError", "Exception"}
      [] exc = "UnboundLocalError" -> {exc, "NameError", "Exception"}
      [] OTHER -> {exc, "Exception"}

Catches(handlers, exc) == handlers \cap Superclasses(exc) # {}

\* The except clauses of lines 215-226, of line 230 and of lines 243-248.
RequestHandlers == {"ConnectionError", "Timeout", "HTTPError", "RequestException"}

JsonHandlers == {"ValueError"}

\* Mutant: the last clause, `except Exception` (line 246), is missing.
ResponseHandlersNarrow == {"KeyError", "TypeError"}

ResponseHandlers == {"KeyError", "TypeError", "Exception"}

\* Every handler logs and returns None.
Handle(handlers, exc) ==
    IF Catches(handlers, exc) THEN Returned(None, 1) ELSE Raised(exc, 1)

\* Lines 235-242, the look into the decoded body: the email of the first
\* element of "data", or the exception raised on the way. The else branch
\* (line 241) formats `e`, a local name no statement has bound.
LookIntoBody(resp) ==
    IF resp.shape \in {"number", "null"} THEN Raised("TypeError", 1)
    ELSE IF ~resp.hasData THEN Raised("UnboundLocalError", 1)
    ELSE IF resp.shape # "mapping" THEN Raised("TypeError", 1)
    ELSE IF resp.data = <<>> THEN Raised("UnboundLocalError", 1)
    ELSE IF resp.kind = "dict" THEN Raised("KeyError", 1)
    ELSE IF resp.kind = "int" THEN Raised("TypeError", 1)
    ELSE IF resp.kind = "str" THEN Raised("AttributeError", 1)
    ELSE IF ~resp.data[1].record THEN Raised("AttributeError", 1)
    ELSE Returned(resp.data[1].email, 1)

\* get_dsid_owner_email from its first line, for one response of the directory.
call_get_dsid_owner_email(dsid, resp) ==
    IF dsid.type # "str" THEN Raised("TypeError", 0)
    ELSE IF resp.raised # "none" THEN Handle(RequestHandlers, resp.raised)
    ELSE IF ~resp.json THEN Handle(JsonHandlers, "JSONDecodeError")
    ELSE IF LookIntoBody(resp).raised # ""
    THEN Handle(ResponseHandlers, LookIntoBody(resp).raised)
    ELSE LookIntoBody(resp)

\* The staff email main() gets for the identifier id (a str), or None.
get_dsid_owner_email(id, resp) == call_get_dsid_owner_email(PyStr(id), resp).value

(* ------------------------ _has_been_assigned_before -------------------- *)

\* Counter(history)[who]
Count(history, who) == Cardinality({k \in 1..Len(history) : history[k] = who})

\* The value returned for a fetched changelog: "True" stands for
\* [ticket.key, True]. Both branches of the code return the same list.
HistoryDecision(history) ==
    IF Count(history, SERVICES) > 1 \/ Count(history, CURATION) > 1
    THEN "True"
    ELSE "True"

(* -------------------------------- notes -------------------------------- *)

CommonIssues ==
    " This was done automatically via script. Please @-mention caliepayne@ucar.edu in regards to issues with script. \n \n Common issues below: \n \n OSDF Issue: Please add support@osg-htc.org as a ticket participant FIRST. Then, add a customer-visible comment (not an internal note) summarizing the issue so OSDF can view it. \n Spam: Change the assignee to it-helpabuse@ucar.edu. \n Not a DATAHELP ticket? Ask the customer to resubmit to the appropriate help desk. If you are unsure, point them to help@ucar.edu. Close the ticket."

\* The note of the fallback pool (main, the catch-all branch).
FallbackNote(to) == " Chi-fan's ticket randomly assigned to " \o to \o "." \o CommonIssues

\* The note of a direct assignment.
DirectNote(to) == "Ticket assigned to " \o to \o " based on DSID ownership." \o CommonIssues

\* Mutant: the note is added as add_comment_to_ticket adds a comment, with no
\* visibility, so that the customer sees it.
PublicVisibility == [type |-> "public", value |-> ""]

\* The visibility add_internal_note_to_ticket gives its comment.
InternalVisibility == [type |-> "role", value |-> "Service Desk Team"]

\* `if dsid:` and `if email:` of main.
HasDsid(d) == d # None /\ d # ""

\* Mutant: `if email is not None:` in the place of `if email:`.
HasEmailNotNone(e) == e # None

HasEmail(e) == e # None /\ e # ""

\* Mutant: the catch-all branch is missing, the resolved owner is assigned.
AssigneeChoicesDirect(e) == {e}

\* The addresses main may hand to assign_jira_ticket for a resolved owner.
AssigneeChoices(e) ==
    IF e = CatchAll THEN {assignee_list[k] : k \in 1..Len(assignee_list)} ELSE {e}

NoteFor(e, to) == IF e = CatchAll THEN FallbackNote(to) ELSE DirectNote(to)


(* -------------------------------- state -------------------------------- *)

VARIABLES
    jira,                  \* self.jira is a connection (FALSE: it is None)
    assignee,              \* tracker: the assignee of each ticket
    changelog,             \* tracker: the assignee changes of each ticket (toString)
    comments,              \* tracker: the comments of each ticket
    fields,                \* tracker: issue.fields of each ticket
    pc,                    \* where main() is
    service,               \* the argument of the running get_unassigned_tickets
    issues,                \* get_unassigned_tickets: the result of search_issues
    tickets,               \* get_unassigned_tickets: the list of line 154
    idx,                   \* the position of the running loop
    service_ticket_list,   \* main: line 319
    curation_ticket_list,  \* main: line 320
    dsid,                  \* main: line 324
    email,                 \* main: lines 327 and 332
    note,                  \* main: lines 333 and 336
    error,                 \* the uncaught exception that ended main(), and where
    log,                   \* every call made so far, in order
    call                   \* a call of a static method made on its own, and its outcome

vars ==
    <<jira, assignee, changelog, comments, fields, pc, service, issues, tickets, idx,
      service_ticket_list, curation_ticket_list, dsid, email, note, error, log, call>>

tracker == <<assignee, changelog, comments, fields>>

locals == <<dsid, email, note>>

\* maxResults of search_issues.
maxResults == 50

\* A list, or None in the place of one.
ListNone == [none |-> TRUE, items |-> <<>>]

ListOf(items) == [none |-> FALSE, items |-> items]

Call(op, group, key, arg, res, vis) ==
    [op |-> op, group |-> group, key |-> key, arg |-> arg, res |-> res, vis |-> vis]

NoVisibility == [type |-> "", value |-> ""]

GroupName(svc) == IF svc THEN "service" ELSE "curation"

TicketOf(key) == CHOOSE t \in Tickets : Key(t) = key

RECURSIVE Ascending(_)
Ascending(S) ==
    IF S = {} THEN <<>>
    ELSE LET m == CHOOSE a \in S : \A b \in S : a <= b
         IN  <<m>> \o Ascending(S \ {m})

RECURSIVE Descending(_)
Descending(S) ==
    IF S = {} THEN <<>>
    ELSE LET m == CHOOSE a \in S : \A b \in S : a >= b
         IN  <<m>> \o Descending(S \ {m})

\* Mutant: ORDER BY key DESC.
search_issues_descending(svc) ==
    LET found == Descending({t \in Tickets : assignee[t] = TeamQueue(svc)})
    IN  SubSeq(found, 1, IF Len(found) < maxResults THEN Len(found) ELSE maxResults)

\* The JQL query of get_unassigned_tickets: the tickets of one team queue,
\* ORDER BY key ASC, at most maxResults of them.
search_issues(svc) ==
    LET found == Ascending({t \in Tickets : assignee[t] = TeamQueue(svc)})
    IN  SubSeq(found, 1, IF Len(found) < maxResults THEN Len(found) ELSE maxResults)

\* A call of the tracker client returns ("ok"), raises JIRAError, or raises
\* something else ("Exception": requests.ConnectionError, ...).

NoError == [at |-> "", exc |-> ""]

\* No static method is called on its own during main().
NoCall ==
    [fn |-> "", arg |-> PyNone, resp |-> Failure("none"), state |-> "none",
     out |-> Returned(None, 0)]

Init ==
    /\ jira \in BOOLEAN
    /\ assignee \in [Tickets -> {SERVICES, CURATION}]
    /\ changelog \in [Tickets -> Histories(SERVICES) \cup Histories(CURATION)]
    /\ \A t \in Tickets : changelog[t] \in Histories(assignee[t])
    /\ comments = [t \in Tickets |-> <<>>]
    /\ fields \in [Tickets -> SampleFields]
    /\ pc = "search"
    /\ service = TRUE
    /\ issues = <<>>
    /\ tickets = <<>>
    /\ idx = 1
    /\ service_ticket_list = ListOf(<<>>)
    /\ curation_ticket_list = ListOf(<<>>)
    /\ dsid = None
    /\ email = None
    /\ note = ""
    /\ error = NoError
    /\ log = <<>>
    /\ call = NoCall

\* An exception no handler catches ends main(): `at` is the call that raised.
Raise(at, exc) ==
    /\ pc' = "aborted"
    /\ error' = [at |-> at, exc |-> exc]

\* Mutant: the curation loop runs in the place of the service loop.
ReturnLoopsSwapped(v) ==
    /\ issues' = <<>>
    /\ tickets' = <<>>
    /\ idx' = 1
    /\ IF service
       THEN /\ service_ticket_list' = v
            /\ service' = FALSE
            /\ pc' = "search"
            /\ UNCHANGED curation_ticket_list
       ELSE /\ curation_ticket_list' = v
            /\ pc' = "curation_loop"
            /\ UNCHANGED <<service, service_ticket_list>>

\* get_unassigned_tickets returns v: line 319, then line 320, then the loops.
Return(v) ==
    /\ issues' = <<>>
    /\ tickets' = <<>>
    /\ idx' = 1
    /\ IF service
       THEN /\ service_ticket_list' = v
            /\ service' = FALSE
            /\ pc' = "search"
            /\ UNCHANGED curation_ticket_list
       ELSE /\ curation_ticket_list' = v
            /\ pc' = "service_loop"
            /\ UNCHANGED <<service, service_ticket_list>>

\* get_unassigned_tickets, lines 137-151: no connection, or the query.
Search ==
    /\ pc = "search"
    /\ \/ /\ ~jira
          /\ Return(ListNone)
          /\ UNCHANGED <<log, error>>
       \/ /\ jira
          /\ log' = Append(log, Call("searchUnresolved", GroupName(service), "", "", "ok", NoVisibility))
          /\ issues' = search_issues(service)
          /\ tickets' = <<>>
          /\ idx' = 1
          /\ pc' = "history"
          /\ UNCHANGED <<service, service_ticket_list, curation_ticket_list, error>>
       \/ /\ jira
          /\ log' = Append(log, Call("searchUnresolved", GroupName(service), "", "", "JIRAError", NoVisibility))
          /\ Return(ListNone)
          /\ UNCHANGED error
       \/ /\ jira
          /\ log' = Append(log, Call("searchUnresolved", GroupName(service), "", "", "Exception", NoVisibility))
          /\ Raise("searchUnresolved", "Exception")
          /\ UNCHANGED <<service, issues, tickets, idx, service_ticket_list, curation_ticket_list>>
    /\ UNCHANGED <<call, jira, tracker, locals>>

\* _has_been_assigned_before for the next issue of line 154. The connection
\* is there (line 137 returned otherwise), so line 100 is passed. The call
\* returns its decision, returns None on JIRAError (line 108), or raises.
HistoryCheck ==
    /\ pc = "history"
    /\ idx <= Len(issues)
    /\ LET key == Key(issues[idx])
       IN  \/ /\ log' = Append(log, Call("getChangelog", GroupName(service), key, "",
                                          HistoryDecision(changelog[issues[idx]]), NoVisibility))
              /\ tickets' = Append(tickets, HistoryDecision(changelog[issues[idx]]))
              /\ idx' = idx + 1
              /\ UNCHANGED <<pc, error>>
           \/ /\ log' = Append(log, Call("getChangelog", GroupName(service), key, "", None, NoVisibility))
              /\ tickets' = Append(tickets, None)
              /\ idx' = idx + 1
              /\ UNCHANGED <<pc, error>>
           \/ /\ log' = Append(log, Call("getChangelog", GroupName(service), key, "", "Exception", NoVisibility))
              /\ Raise("getChangelog", "Exception")
              /\ UNCHANGED <<tickets, idx>>
    /\ UNCHANGED <<call, jira, tracker, locals, service, issues, service_ticket_list, curation_ticket_list>>

\* Line 156 overwrites the list of line 154 with the dicts of all the issues;
\* line 157 returns it.
IssuesToDicts ==
    /\ pc = "history"
    /\ idx > Len(issues)
    /\ Return(ListOf([k \in 1..Len(issues) |-> _issue_to_dict(Key(issues[k]), fields[issues[k]])]))
    /\ UNCHANGED <<call, jira, tracker, locals, error, log>>

\* `for ticket in <list>` over None: TypeError, which nothing catches.
IterateNone ==
    /\ \/ pc = "service_loop" /\ service_ticket_list.none
       \/ pc = "curation_loop" /\ curation_ticket_list.none
    /\ Raise("for", "TypeError")
    /\ UNCHANGED <<call, jira, tracker, locals, service, issues, tickets, idx,
                   service_ticket_list, curation_ticket_list, log>>

\* The ticket of the running turn of the service loop.
ticket == service_ticket_list.items[idx]

ticket_id == ticket.key

\* The loop goes on with the next ticket.
NextTicket ==
    /\ pc' = "service_loop"
    /\ idx' = idx + 1

\* Lines 322-325 and 338-339: extraction.
Extract ==
    /\ pc = "service_loop"
    /\ ~service_ticket_list.none
    /\ idx <= Len(service_ticket_list.items)
    /\ dsid' = get_dsid_from_json(ticket)
    /\ log' = Append(log, Call("extract", "service", ticket_id, "", dsid', NoVisibility))
    /\ IF HasDsid(dsid')
       THEN pc' = "lookup" /\ UNCHANGED idx
       ELSE NextTicket
    /\ UNCHANGED <<call, jira, tracker, email, note, service, issues, tickets,
                   service_ticket_list, curation_ticket_list, error>>

\* Lines 327-329: the directory lookup.
Lookup ==
    /\ pc = "lookup"
    /\ \E resp \in DirectoryResponses :
          /\ email' = get_dsid_owner_email(dsid, resp)
          /\ log' = Append(log, Call("lookup", "service", ticket_id, dsid, email', NoVisibility))
          /\ IF HasEmail(email')
             THEN pc' = "assign" /\ UNCHANGED idx
             ELSE NextTicket
    /\ UNCHANGED <<call, jira, tracker, dsid, note, service, issues, tickets,
                   service_ticket_list, curation_ticket_list, error>>

\* Mutant: the note is added after the try statement of assign_jira_ticket,
\* whether assign_issue raised or not.
AssignNoteAlways ==
    /\ pc = "assign"
    /\ \E to \in AssigneeChoices(email) :
          /\ email' = to
          /\ note' = NoteFor(email, to)
          /\ \/ /\ log' = Append(log, Call("setAssignee", "service", ticket_id, to, "ok", NoVisibility))
                /\ assignee' = [assignee EXCEPT ![TicketOf(ticket_id)] = to]
                /\ changelog' = [changelog EXCEPT ![TicketOf(ticket_id)] = Append(@, to)]
             \/ /\ log' = Append(log, Call("setAssignee", "service", ticket_id, to, "error", NoVisibility))
                /\ UNCHANGED <<assignee, changelog>>
          /\ pc' = "note"
          /\ UNCHANGED idx
    /\ UNCHANGED <<call, jira, comments, fields, dsid, service, issues, tickets,
                   service_ticket_list, curation_ticket_list, error>>

\* Lines 330-337 and assign_jira_ticket, line 307: the choice of the address
\* and of the note, then assign_issue; any exception is caught (lines 311-314).
Assign ==
    /\ pc = "assign"
    /\ \E to \in AssigneeChoices(email) :
          /\ email' = to
          /\ note' = NoteFor(email, to)
          /\ \/ /\ log' = Append(log, Call("setAssignee", "service", ticket_id, to, "ok", NoVisibility))
                /\ assignee' = [assignee EXCEPT ![TicketOf(ticket_id)] = to]
                /\ changelog' = [changelog EXCEPT ![TicketOf(ticket_id)] = Append(@, to)]
                /\ pc' = "note"
                /\ UNCHANGED idx
             \/ /\ log' = Append(log, Call("setAssignee", "service", ticket_id, to, "error", NoVisibility))
                /\ NextTicket
                /\ UNCHANGED <<assignee, changelog>>
    /\ UNCHANGED <<call, jira, comments, fields, dsid, service, issues, tickets,
                   service_ticket_list, curation_ticket_list, error>>

\* add_internal_note_to_ticket (line 310): any exception is caught.
AddInternalNote ==
    /\ pc = "note"
    /\ \/ /\ log' = Append(log, Call("addComment", "service", ticket_id, note, "ok", InternalVisibility))
          /\ comments' = [comments EXCEPT ![TicketOf(ticket_id)] =
                             Append(@, [body |-> note, visibility |-> InternalVisibility])]
       \/ /\ log' = Append(log, Call("addComment", "service", ticket_id, note, "error", InternalVisibility))
          /\ UNCHANGED comments
    /\ NextTicket
    /\ UNCHANGED <<call, jira, assignee, changelog, fields, locals, service, issues, tickets,
                   service_ticket_list, curation_ticket_list, error>>

\* The service loop is over: line 341.
ServiceLoopEnd ==
    /\ pc = "service_loop"
    /\ ~service_ticket_list.none
    /\ idx > Len(service_ticket_list.items)
    /\ pc' = "curation_loop"
    /\ idx' = 1
    /\ UNCHANGED <<call, jira, tracker, locals, service, issues, tickets,
                   service_ticket_list, curation_ticket_list, error, log>>

\* Lines 341-343: a curation ticket is printed.
CurationIterate ==
    /\ pc = "curation_loop"
    /\ ~curation_ticket_list.none
    /\ idx <= Len(curation_ticket_list.items)
    /\ log' = Append(log, Call("iterate", "curation", curation_ticket_list.items[idx].key, "", "", NoVisibility))
    /\ idx' = idx + 1
    /\ UNCHANGED <<call, jira, tracker, locals, pc, service, issues, tickets,
                   service_ticket_list, curation_ticket_list, error>>

\* main() returns.
CurationLoopEnd ==
    /\ pc = "curation_loop"
    /\ ~curation_ticket_list.none
    /\ idx > Len(curation_ticket_list.items)
    /\ pc' = "done"
    /\ UNCHANGED <<call, jira, tracker, locals, service, issues, tickets, idx,
                   service_ticket_list, curation_ticket_list, error, log>>

Next ==
    \/ Search
    \/ HistoryCheck
    \/ IssuesToDicts
    \/ IterateNone
    \/ Extract
    \/ Lookup
    \/ Assign
    \/ AddInternalNote
    \/ ServiceLoopEnd
    \/ CurationIterate
    \/ CurationLoopEnd

Spec == Init /\ [][Next]_vars


(* ------------------ the static methods called on their own ------------ *)

\* Words a ticket may hold: identifiers of both forms in both cases, the
\* legacy form written with a long s, near misses, and a plain word.
Tokens ==
    {"d123456", "D654321", "ds123.4", "DS567.8", "d" \o LongS \o "123.4",
     "xd123456", "d1234567", "ds12.34", "hello"}

RECURSIVE Texts(_)
\* The texts of 1 to n words.
Texts(n) ==
    IF n = 1 THEN Tokens
    ELSE Texts(n - 1) \cup {t \o " " \o w : t \in Texts(n - 1), w \in Tokens}

\* The dicts of _issue_to_dict handed to get_dsid_from_json.
TicketDicts ==
    {[key |-> Key(1), reporter |-> None, summary |-> sm, description |-> ds,
      created |-> "2024-01-02T03:04:05.000-0600"] :
        sm \in Texts(MaxTokens), ds \in Tokens \cup {None}}

\* Arguments of get_dsid_from_json: dicts, and values that are no dict
\* (None, '', 'd123456', [], ['d123456'], 0, 7) or an empty one ({}).
ExtractArgs ==
    {PyDict(d) : d \in TicketDicts}
        \cup {PyNone, PyStr(""), PyStr("d123456"),
              Value("list", FALSE, NoDict, ""), Value("list", TRUE, NoDict, ""),
              Value("int", FALSE, NoDict, ""), Value("int", TRUE, NoDict, ""),
              Value("dict", FALSE, NoDict, "")}

\* Arguments of get_dsid_owner_email: identifiers, other strings, and values
\* that are no str (None, 0, 123456, [], a dict).
ResolveArgs ==
    {PyStr("d123456"), PyStr("d123004"), PyStr("hello"), PyStr(""),
     PyNone, Value("int", FALSE, NoDict, ""), Value("int", TRUE, NoDict, ""),
     Value("list", FALSE, NoDict, ""), Value("dict", FALSE, NoDict, "")}

Pending(fn, arg) ==
    [fn |-> fn, arg |-> arg, resp |-> Failure("none"), state |-> "pending",
     out |-> Returned(None, 0)]

\* No run of main(): only the call is made.
FunctionInit ==
    /\ jira = FALSE
    /\ assignee = [t \in Tickets |-> SERVICES]
    /\ changelog = [t \in Tickets |-> <<>>]
    /\ comments = [t \in Tickets |-> <<>>]
    /\ fields = [t \in Tickets |-> CHOOSE f \in SampleFields : f.description = None]
    /\ pc = "call"
    /\ service = TRUE
    /\ issues = <<>>
    /\ tickets = <<>>
    /\ idx = 1
    /\ service_ticket_list = ListOf(<<>>)
    /\ curation_ticket_list = ListOf(<<>>)
    /\ dsid = None
    /\ email = None
    /\ note = ""
    /\ error = NoError
    /\ log = <<>>
    /\ call \in {Pending("get_dsid_from_json", a) : a \in ExtractArgs}
                    \cup {Pending("get_dsid_owner_email", a) : a \in ResolveArgs}

CallExtract ==
    /\ call.state = "pending"
    /\ call.fn = "get_dsid_from_json"
    /\ call' = [call EXCEPT !.state = "done", !.out = call_get_dsid_from_json(call.arg)]
    /\ UNCHANGED <<jira, tracker, locals, pc, service, issues, tickets, idx,
                   service_ticket_list, curation_ticket_list, error, log>>

CallResolve ==
    /\ call.state = "pending"
    /\ call.fn = "get_dsid_owner_email"
    /\ \E resp \in DirectoryResponses :
          LET out == call_get_dsid_owner_email(call.arg, resp)
          IN  call' = [call EXCEPT !.state = "done", !.out = out,
                                   !.resp = IF out.requests = 0 THEN @ ELSE resp]
    /\ UNCHANGED <<jira, tracker, locals, pc, service, issues, tickets, idx,
                   service_ticket_list, curation_ticket_list, error, log>>

FunctionNext ==
    \/ CallExtract
    \/ CallResolve

FunctionSpec == FunctionInit /\ [][FunctionNext]_vars

(* ------------------------ reading the log of calls --------------------- *)

LogIdx == 1..Len(log)

\* The spec's wasRoutedBefore: a team queue is the new assignee more than once.
RoutedBefore(t) == Count(changelog[t], SERVICES) > 1 \/ Count(changelog[t], CURATION) > 1

FetchOps == {"searchUnresolved", "getChangelog"}

ProcessingOps == {"extract", "lookup", "setAssignee", "addComment"}

WriteOps == {"setAssignee", "addComment"}

\* The call that ends a ticket's turn: nothing found, assignment failed, the
\* note attempted, or (curation) the ticket iterated.
IsTerminalCall(c) ==
    \/ c.op = "extract" /\ c.res \in {None, ""}
    \/ c.op = "lookup" /\ c.res \in {None, ""}
    \/ c.op = "setAssignee" /\ c.res = "error"
    \/ c.op = "addComment"
    \/ c.op = "iterate"

\* The ticket of key k reached its terminal state before call i.
TerminalBefore(k, i) == \E j \in 1..(i - 1) : log[j].key = k /\ IsTerminalCall(log[j])

\* The calls made for the ticket of key k, in order.
CallsOf(k) == SelectSeq(log, LAMBDA c : c.key = k)

OpsOf(k) == [n \in 1..Len(CallsOf(k)) |-> CallsOf(k)[n].op]

IsPrefix(a, b) == Len(a) <= Len(b) /\ a = SubSeq(b, 1, Len(a))

\* The tickets whose history was fetched for a group.
QueueOf(group) ==
    {t \in Tickets : \E i \in LogIdx :
        log[i].op = "getChangelog" /\ log[i].group = group /\ log[i].key = Key(t)}

\* The keys of the service list main() loops over.
ServiceKeys == {service_ticket_list.items[p].key : p \in 1..Len(service_ticket_list.items)}

\* The turn of ticket t in the service loop is over.
TurnOver(t) ==
    \E p \in 1..Len(service_ticket_list.items) :
        /\ service_ticket_list.items[p].key = Key(t)
        /\ \/ pc \in {"curation_loop", "done"}
           \/ pc \in {"service_loop", "lookup", "assign", "note"} /\ idx > p
           \/ pc = "aborted" /\ error.at = "for"

(* -------------------------------- claims ------------------------------- *)

\* C1 (as claimed): a ticket whose history shows a team queue as the new
\* assignee more than once is skipped: no extraction, no lookup, no
\* setAssignee and no addComment is performed for it.
C1_AlreadyRoutedSkipped ==
    \A i \in LogIdx :
        log[i].op \in ProcessingOps => ~RoutedBefore(TicketOf(log[i].key))

\* C2 (as claimed): a ticket whose history fetch failed (the check returned
\* None, neither routed nor not routed) gets no setAssignee and no addComment.
C2_UnknownHistorySkipped ==
    \A i \in LogIdx : \A j \in LogIdx :
        (log[i].op = "getChangelog" /\ log[i].res = None)
            => ~(log[j].key = log[i].key /\ log[j].op \in WriteOps)

\* C3: no setAssignee carries the catch-all address; when the directory
\* resolved the ticket to the catch-all address, the address assigned is a
\* member of the pool (which lacks the catch-all address) and the note
\* attached is the pool's extended note.
C3_NeverCatchAll ==
    \A i \in LogIdx :
        log[i].op = "setAssignee" =>
            /\ log[i].arg # CatchAll
            /\ \A l \in LogIdx :
                  (log[l].op = "lookup" /\ log[l].key = log[i].key /\ log[l].res = CatchAll) =>
                      /\ \E k \in 1..Len(assignee_list) : log[i].arg = assignee_list[k]
                      /\ \A k \in 1..Len(assignee_list) : assignee_list[k] # CatchAll
                      /\ \A c \in LogIdx :
                            (log[c].op = "addComment" /\ log[c].key = log[i].key) =>
                                log[c].arg = FallbackNote(log[i].arg)

\* C3's case: a ticket resolved to the catch-all address was assigned and annotated.
C3_Witness ==
    \E l \in LogIdx : \E i \in LogIdx : \E c \in LogIdx :
        /\ log[l].op = "lookup" /\ log[l].res = CatchAll
        /\ log[i].op = "setAssignee" /\ log[i].key = log[l].key /\ log[i].res = "ok"
        /\ log[c].op = "addComment" /\ log[c].key = log[l].key /\ log[c].res = "ok"

\* C4 (as claimed): main() is never ended by the failure of a remote call made
\* for one ticket (history fetch, lookup, setAssignee, addComment).
C4_TicketFailureIsolated ==
    error.at \notin {"getChangelog", "lookup", "setAssignee", "addComment"}

\* C5: the tracker is written to for a ticket only after extraction found an
\* identifier in it and the lookup of that identifier returned a non-empty
\* address; the tracker's assignees and comments change through these calls only.
C5_WritesOnlyWithOwner ==
    /\ \A i \in LogIdx :
          log[i].op \in WriteOps =>
              \E e \in 1..(i - 1) : \E l \in 1..(i - 1) :
                  /\ e < l
                  /\ log[e].op = "extract" /\ log[e].key = log[i].key
                  /\ log[e].res \notin {None, ""}
                  /\ log[l].op = "lookup" /\ log[l].key = log[i].key
                  /\ log[l].arg = log[e].res
                  /\ log[l].res \notin {None, ""}
    /\ \A t \in Tickets :
          (assignee[t] \notin {SERVICES, CURATION} \/ comments[t] # <<>>) =>
              \E i \in LogIdx :
                  log[i].op = "setAssignee" /\ log[i].key = Key(t) /\ log[i].res = "ok"

\* C5's case: the pass ended, one ticket was assigned and another one, whose
\* lookup gave an empty or no address, was not.
C5_Witness ==
    /\ pc = "done"
    /\ \E i \in LogIdx : log[i].op = "setAssignee"
    /\ \E l \in LogIdx :
          /\ log[l].op = "lookup" /\ log[l].res = ""
          /\ \A i \in LogIdx : log[i].key = log[l].key => log[i].op \notin WriteOps

\* The calls of a ticket routed to its owner without a failure.
Pipeline == <<"getChangelog", "extract", "lookup", "setAssignee", "addComment">>

\* C6's case for ticket t: a service ticket, not routed before, whose turn is
\* over, resolved to an owner other than the catch-all address, no call failed.
RoutedCleanly(t) ==
    LET calls == CallsOf(Key(t))
    IN  /\ TurnOver(t)
        /\ ~RoutedBefore(t)
        /\ Len(calls) >= 3
        /\ calls[1].res \notin {None, "Exception"}
        /\ calls[3].op = "lookup"
        /\ calls[3].res \notin {None, "", CatchAll}
        /\ \A n \in 1..Len(calls) : calls[n].res # "error"

\* C6: the calls of a service ticket follow the order history check,
\* extraction, resolution, assignment, annotation; a ticket routed cleanly
\* gets exactly one setAssignee with the owner's address, then exactly one
\* addComment of internal (service desk role) visibility.
C6_AssignThenAnnotate ==
    \A t \in Tickets :
        LET calls == CallsOf(Key(t))
        IN  (Len(calls) >= 1 /\ calls[1].group = "service") =>
                /\ IsPrefix(OpsOf(Key(t)), Pipeline)
                /\ RoutedCleanly(t) =>
                      /\ Len(calls) = 5
                      /\ calls[4].arg = calls[3].res
                      /\ calls[4].res = "ok"
                      /\ calls[5].res = "ok"
                      /\ calls[5].vis = [type |-> "role", value |-> "Service Desk Team"]
                      /\ assignee[t] = calls[3].res
                      /\ Len(comments[t]) = 1
                      /\ comments[t][1].visibility = [type |-> "role", value |-> "Service Desk Team"]

\* C6's case: some service ticket was routed cleanly to its owner.
C6_Witness == \E t \in Tickets : RoutedCleanly(t)

\* C7 (as claimed): the history check reports "already routed" if and only
\* if a team queue occurs more than once among the assignee changes.
C7_DecisionIffRoutedBefore ==
    \A i \in LogIdx :
        (log[i].op = "getChangelog" /\ log[i].res \in {"True", "False"}) =>
            (log[i].res = "True" <=> RoutedBefore(TicketOf(log[i].key)))

\* C8 (as claimed): a queue query that failed, or a missing connection, gives
\* an absent result, and the loop over that result does not abort the pass.
C8_AbsentQueueAbsorbed ==
    (service_ticket_list.none \/ curation_ticket_list.none)
        => ~(pc = "aborted" /\ error.at = "for")

\* C9 (as claimed): no remote call of the curation selector (its query, a
\* history fetch) is issued before every service ticket is in a terminal state.
C9_CurationCallsAfterService ==
    \A i \in LogIdx :
        (log[i].group = "curation" /\ log[i].op \in FetchOps) =>
            \A k \in ServiceKeys : TerminalBefore(k, i)

\* C9 (amended): both queues are fetched first, the service queue before the
\* curation queue, each with its history fetches; then every service ticket
\* reaches a terminal state before the first curation ticket is iterated.
C9_ServiceDrainedBeforeCuration ==
    /\ \A i \in LogIdx : \A j \in LogIdx :
          (/\ log[i].op \in FetchOps /\ log[i].group = "service"
           /\ log[j].op \in FetchOps /\ log[j].group = "curation") => i < j
    /\ \A i \in LogIdx : \A j \in LogIdx :
          (log[i].op \in FetchOps /\ log[j].op \notin FetchOps) => i < j
    /\ \A j \in LogIdx :
          log[j].op = "iterate" =>
              /\ \A k \in ServiceKeys : TerminalBefore(k, j)
              /\ \A i \in LogIdx : log[i].op \in ProcessingOps => i < j

\* C9's case: the pass ended after a service ticket was annotated and a
\* curation ticket iterated.
C9_Witness ==
    /\ pc = "done"
    /\ \E i \in LogIdx : log[i].op = "addComment"
    /\ \E j \in LogIdx : log[j].op = "iterate"

\* C10 (as claimed): no call for a later ticket of a queue, its history check
\* included, is issued before the preceding tickets reached their terminal
\* states, and setAssignee calls occur in ascending ticket order.
C10_OneTicketAtATime ==
    /\ \A i \in LogIdx :
          log[i].op \in ProcessingOps \cup {"getChangelog", "iterate"} =>
              \A t \in QueueOf(log[i].group) :
                  t < TicketOf(log[i].key) => TerminalBefore(Key(t), i)
    /\ \A i \in LogIdx : \A j \in LogIdx :
          (log[i].op = "setAssignee" /\ log[j].op = "setAssignee" /\ i < j)
              => TicketOf(log[i].key) < TicketOf(log[j].key)

\* C10 (amended): the history checks of a queue are issued for all its
\* tickets, in the order of the query (ascending key), before any ticket is
\* processed; after that the tickets are processed one at a time in that
\* order: no extraction, lookup, setAssignee or addComment (or iteration) of a
\* later ticket comes before the preceding tickets reached their terminal
\* states, and setAssignee calls occur in ascending ticket order.
C10_ProcessedInQueryOrder ==
    /\ \A i \in LogIdx : \A j \in LogIdx :
          (/\ log[i].op = "getChangelog" /\ log[j].op = "getChangelog"
           /\ log[i].group = log[j].group /\ i < j)
              => TicketOf(log[i].key) < TicketOf(log[j].key)
    /\ \A i \in LogIdx :
          log[i].op \in ProcessingOps \cup {"iterate"} =>
              \A t \in QueueOf(log[i].group) :
                  t < TicketOf(log[i].key) => TerminalBefore(Key(t), i)
    /\ \A i \in LogIdx : \A j \in LogIdx :
          (log[i].op = "setAssignee" /\ log[j].op = "setAssignee" /\ i < j)
              => TicketOf(log[i].key) < TicketOf(log[j].key)

\* C10's case: the pass ended after two tickets of the service queue were assigned.
C10_Witness ==
    /\ pc = "done"
    /\ \E i \in LogIdx : \E j \in LogIdx :
          /\ i < j
          /\ log[i].op = "setAssignee" /\ log[j].op = "setAssignee"
          /\ log[i].key # log[j].key

\* The tickets of the list main() holds for the curation queue.
CurationKeys ==
    {curation_ticket_list.items[p].key : p \in 1..Len(curation_ticket_list.items)}

\* C15: for the curation queue only the query, the history checks and the
\* iteration are performed: no ticket of the curation queue is extracted
\* from, looked up, assigned or commented on, and its assignee and comments
\* stay what they were.
C15_CurationOnlyIterated ==
    /\ \A i \in LogIdx :
          log[i].group = "curation" => log[i].op \in FetchOps \cup {"iterate"}
    /\ \A t \in Tickets :
          (t \in QueueOf("curation") \/ Key(t) \in CurationKeys) =>
              /\ \A i \in LogIdx : log[i].key = Key(t) => log[i].op \notin ProcessingOps
              /\ assignee[t] = CURATION
              /\ comments[t] = <<>>

\* C15's case: the pass ended; a curation ticket whose text names a dataset
\* was iterated, and a service ticket was assigned.
C15_Witness ==
    /\ pc = "done"
    /\ \E t \in Tickets :
          /\ fields[t].description # None
          /\ \E j \in LogIdx : log[j].op = "iterate" /\ log[j].key = Key(t)
    /\ \E i \in LogIdx : log[i].op = "setAssignee" /\ log[i].res = "ok"

\* The calls that ended the turn of the ticket of key k.
TerminalCalls(k) == {i \in LogIdx : log[i].key = k /\ IsTerminalCall(log[i])}

\* C16 (as claimed): when the pass is over, every ticket a queue query
\* returned and whose history check gave a decision was processed once and
\* is in exactly one terminal state.
C16_EveryTicketTerminal ==
    pc \in {"done", "aborted"} =>
        \A t \in Tickets :
            (\E i \in LogIdx : /\ log[i].op = "getChangelog"
                               /\ log[i].key = Key(t)
                               /\ log[i].res \notin {None, "Exception"})
                => Cardinality(TerminalCalls(Key(t))) = 1

\* The calls of operation op made for ticket t with result res.
CallsWith(t, op, results) ==
    {i \in LogIdx : log[i].key = Key(t) /\ log[i].op = op /\ log[i].res \in results}

\* C17: addComment is called for a ticket only right after a setAssignee of
\* that ticket that succeeded; after a failed setAssignee no addComment is
\* made for the ticket; a failed addComment leaves the assignment in place,
\* ends nothing and is not tried again; so the notes of a ticket are never
\* more than its successful assignments, which are at most one.
C17_NoteOnlyAfterAssignment ==
    /\ \A i \in LogIdx :
          log[i].op = "addComment" =>
              /\ i > 1
              /\ log[i - 1].op = "setAssignee"
              /\ log[i - 1].key = log[i].key
              /\ log[i - 1].res = "ok"
              /\ assignee[TicketOf(log[i].key)] = log[i - 1].arg
    /\ \A t \in Tickets :
          /\ CallsWith(t, "setAssignee", {"error"}) # {}
                => CallsWith(t, "addComment", {"ok", "error"}) = {}
          /\ Cardinality(CallsWith(t, "setAssignee", {"ok", "error"})) <= 1
          /\ Cardinality(CallsWith(t, "addComment", {"ok", "error"}))
                <= Cardinality(CallsWith(t, "setAssignee", {"ok"}))
          /\ Len(comments[t]) = Cardinality(CallsWith(t, "addComment", {"ok"}))
    /\ error.at \notin {"setAssignee", "addComment"}

\* C17's case: the pass ended; the note of one ticket failed after its
\* assignment succeeded, and the assignment of another ticket failed.
C17_Witness ==
    /\ pc = "done"
    /\ \E t \in Tickets : \E u \in Tickets :
          /\ CallsWith(t, "setAssignee", {"ok"}) # {}
          /\ CallsWith(t, "addComment", {"error"}) # {}
          /\ CallsWith(u, "setAssignee", {"error"}) # {}

(* ------------------ claims on the static methods ----------------------- *)

\* get_dsid_from_json was called with a dict and the call is over.
Extracted == call.fn = "get_dsid_from_json" /\ call.state = "done" /\ call.arg.type = "dict"
                 /\ call.arg.truthy

\* The text the patterns are searched in.
CallText == JoinValues(call.arg.dict)

\* Where the leftmost match of a pattern starts (0: no match).
MatchStart(pattern, text) ==
    LET at == {p \in 1..Len(text) : MatchAt(pattern, text, p)}
    IN  IF at = {} THEN 0 ELSE CHOOSE a \in at : \A b \in at : a <= b

\* C11: when the text of the ticket holds a match of the primary pattern and
\* a match of the legacy pattern, in either order, get_dsid_from_json returns
\* the (lower-cased) primary match, and not the converted legacy match.
C11_PrimaryWins ==
    (Extracted /\ MatchStart("primary", CallText) > 0 /\ MatchStart("legacy", CallText) > 0)
        => /\ call.out.raised = ""
           /\ call.out.value = lower(re_search("primary", CallText))
           /\ TryPattern("legacy", CallText) # lower(re_search("primary", CallText))
                 => call.out.value # TryPattern("legacy", CallText)

\* C11's case: the call is over for a text whose legacy match comes before
\* its primary match.
C11_Witness ==
    /\ Extracted
    /\ MatchStart("legacy", CallText) > 0
    /\ MatchStart("primary", CallText) > MatchStart("legacy", CallText)

\* Lowercase d followed by exactly 6 digits.
IsCanonical(v) ==
    /\ Len(v) = 7
    /\ Char(v, 1) = "d"
    /\ \A k \in 2..7 : IsDigit(Char(v, k))

\* C12 (as claimed): for every dict of ticket fields get_dsid_from_json
\* returns, without raising, None or a canonical identifier (lowercase d and
\* exactly 6 digits).
C12_AbsentOrCanonical ==
    Extracted =>
        /\ call.out.raised = ""
        /\ call.out.value = None \/ IsCanonical(call.out.value)

\* get_dsid_owner_email was called with a str and the call is over.
Resolved == call.fn = "get_dsid_owner_email" /\ call.state = "done" /\ call.arg.type = "str"

\* The response is well formed and its first record carries a non-empty email.
FirstRecordHasEmail(resp) ==
    /\ resp.raised = "none"
    /\ resp.json
    /\ resp.shape = "mapping"
    /\ resp.hasData
    /\ resp.kind = "list"
    /\ resp.data # <<>>
    /\ resp.data[1].record
    /\ resp.data[1].email \notin {None, ""}

\* C13: get_dsid_owner_email called with a str never raises; it returns the
\* email of the first record when the response is well formed and that record
\* carries a non-empty email, and an absent value (None, or the empty email)
\* for every other response, whatever the later records hold.
C13_ResolveNeverRaises ==
    Resolved =>
        /\ call.out.raised = ""
        /\ IF FirstRecordHasEmail(call.resp)
           THEN call.out.value = call.resp.data[1].email
           ELSE call.out.value \in {None, ""}

\* C13's case: the look into the body raised an exception that only the last
\* except clause catches (a body with no "data", a first element that is no
\* record), and the call is over.
C13_Witness ==
    /\ Resolved
    /\ call.resp.raised = "none"
    /\ call.resp.json
    /\ LookIntoBody(call.resp).raised \in {"UnboundLocalError", "AttributeError"}

\* C14 (as claimed): get_dsid_from_json called with a value that is no dict
\* raises TypeError, and get_dsid_owner_email called with a value that is no
\* str raises TypeError before any request is sent.
C14_WrongTypeRaises ==
    call.state = "done" =>
        /\ (call.fn = "get_dsid_from_json" /\ call.arg.type # "dict")
              => call.out.raised = "TypeError"
        /\ (call.fn = "get_dsid_owner_email" /\ call.arg.type # "str")
              => call.out.raised = "TypeError" /\ call.out.requests = 0


====
